---------------------------- MODULE Spec2Model ----------------------------
(***************************************************************************)
(* The three-stage prompt pipeline (enhance, respond, score), the honesty  *)
(* score extractor and the experiment harness of workflow/.                *)
(*                                                                         *)
(* A text is a sequence of symbols.  A symbol is a one-character string;   *)
(* the fixed literals of the pipeline's f-string and the system prompts    *)
(* are single symbols of their own (they hold no part of the score         *)
(* pattern that the model ever lets a match depend on).                    *)
(***************************************************************************)
EXTENDS Integers, Sequences, FiniteSets, TLC

VARIABLES
    \* extract_score(ah_text): its argument, how the argument was put
    \* together, its position and its return value
    ah_text, parts, xpc, score,
    \* one pipeline run: the function that runs, its arguments, its position,
    \* its locals and what it returns
    pipeline, user_prompt, pel_system_prompt, pc,
    enhanced_bundle, llm_response_bundle, ah_output, ret,
    \* the completion capability behind call_llm, the calls it received in this
    \* run and the number of calls it received in all
    llm_fn, calls, ncalls,
    \* run_experiment: the two tables it iterates over, its position, the
    \* indices of its three loops and its result list
    prompt_sets, technique_systems, epc, di, pi, ti, results,
    \* __main__: the lines summarize prints, the file json.dump writes and the
    \* list json.load reads back from it
    report, file, loaded,
    \* the /llm handler: the request body, the handler's position, the provider
    \* pipelines it has invoked and its reply
    body, spc, invoked, reply,
    \* one task per (domain, prompt, technique) triple: each task's position and
    \* locals, and the list the tasks append their records to
    tasks, task_results

ExtractVars == <<ah_text, parts, xpc, score>>
PipelineVars ==
    <<pipeline, user_prompt, pel_system_prompt, pc,
      enhanced_bundle, llm_response_bundle, ah_output, ret, llm_fn, calls, ncalls>>
ExperimentVars == <<prompt_sets, technique_systems, epc, di, pi, ti, results>>
MainVars == <<report, file, loaded>>
ServerVars == <<body, spc, invoked, reply>>
TaskVars == <<tasks, task_results>>
vars == <<ExtractVars, PipelineVars, ExperimentVars, MainVars, ServerVars, TaskVars>>

---------------------------------------------------------------------------
(* Bounds of the model *)

\* Score texts carry every number 0..MaxN (and the longer numbers of BigNums)
MaxN == 104
\* The generated tables of run_experiment have up to MaxDomains domains of up
\* to MaxPrompts prompts each, and up to MaxTechniques techniques
MaxDomains == 2
MaxPrompts == 2
MaxTechniques == 2
\* In an experiment the capability fails at one of its first MaxFailAt calls,
\* or never
MaxFailAt == 4
\* summarize is called on lists of up to MaxResults records
MaxResults == 4
\* Up to MaxTasks runs are made as tasks of their own
MaxTasks == 3

---------------------------------------------------------------------------
(* Characters *)

UpperLetters ==
    <<"A","B","C","D","E","F","G","H","I","J","K","L","M",
      "N","O","P","Q","R","S","T","U","V","W","X","Y","Z">>
LowerLetters ==
    <<"a","b","c","d","e","f","g","h","i","j","k","l","m",
      "n","o","p","q","r","s","t","u","v","w","x","y","z">>
DigitChars == <<"0","1","2","3","4","5","6","7","8","9">>

\* (mutant) a case-sensitive comparison: the flag re.IGNORECASE dropped
Fold_CaseSensitive(c) == c

\* re.IGNORECASE: characters are compared after case folding
FoldTable ==
    [c \in {UpperLetters[k] : k \in 1..26} |->
        LowerLetters[CHOOSE k \in 1..26 : UpperLetters[k] = c]]
Fold(c) == IF c \in DOMAIN FoldTable THEN FoldTable[c] ELSE c

UpperTable ==
    [c \in {LowerLetters[k] : k \in 1..26} |->
        UpperLetters[CHOOSE k \in 1..26 : LowerLetters[k] = c]]
Upper(c) == IF c \in DOMAIN UpperTable THEN UpperTable[c] ELSE c

\* the class of whitespace
SpaceChars == {" ", "\t", "\n", "\r", "\f"}
IsSpace(c) == c \in SpaceChars
\* the class of digits
DigitSet == {DigitChars[k] : k \in 1..10}
IsDigit(c) == c \in DigitSet
\* (mutant) the class of separators with = added
SepChars_WithEquals == {":", "-", "*", "="}
\* the class of separators : - *
SepChars == {":", "-", "*"}
IsSep(c) == c \in SepChars

DigitVal(c) == (CHOOSE k \in 1..10 : DigitChars[k] = c) - 1

RECURSIVE Digits(_)
\* the decimal digits of n, as the tests' f-strings and literals write them
Digits(n) ==
    IF n < 10 THEN <<DigitChars[n + 1]>>
    ELSE Digits(n \div 10) \o <<DigitChars[(n % 10) + 1]>>

---------------------------------------------------------------------------
\* extract_score: the regular expression of line 140,
\*     "honesty", spaces, "score", spaces, any of : - *, spaces,
\*     an optional "of" with spaces, then one to three digits (group 1),
\* matched as re.search matches it: the leftmost start position that has a
\* match, and at that position the first match in backtracking order
\* (every repetition is greedy: longest first).  A match is reported as
\* the position where group 1 starts; 0 is "no match".

LIT_HONESTY == <<"h","o","n","e","s","t","y">>
LIT_SCORE == <<"s","c","o","r","e">>
LIT_OF == <<"o","f">>

\* group 1: the least and the largest number of digits captured
MinDigits == 1
MaxDigits == 3
\* the accepted score range
MinScore == 0
MaxScore == 100

\* the absent value (None) and a present value
None == <<>>
Some(n) == <<n>>

\* a literal of the pattern at position i of t
LitAt(t, i, lit) ==
    /\ i + Len(lit) - 1 <= Len(t)
    /\ \A k \in 1..Len(lit) : Fold(t[i + k - 1]) = lit[k]

\* the position after the longest run of characters of class cls from i on
RunEnd(t, i, cls) ==
    CHOOSE j \in i..(Len(t) + 1) :
        /\ \A k \in i..(j - 1) : t[k] \in cls
        /\ (j = Len(t) + 1 \/ t[j] \notin cls)

\* the positions a greedy repetition of cls that starts at i can end before
Ends(t, i, cls) == i..RunEnd(t, i, cls)

\* backtracking over the candidates DOMAIN r, largest first (a greedy
\* repetition gives back one character at a time): r[x] is the result of the
\* rest of the pattern at x, and the first x where it matches decides
FirstDesc(r) ==
    LET ok == {x \in DOMAIN r : r[x] # 0}
    IN  IF ok = {} THEN 0
        ELSE r[CHOOSE x \in ok : \A y \in ok : y <= x]

\* (mutant) the digits must not run into a fractional part
DigitsAt_NoFraction(t, e) ==
    LET stop == RunEnd(t, e, DigitSet)
    IN  IF e <= Len(t) /\ IsDigit(t[e]) /\ ~(stop <= Len(t) /\ t[stop] = ".")
        THEN e ELSE 0

\* group 1, one to three digits, at e
DigitsAt(t, e) ==
    IF e + MinDigits - 1 <= Len(t) /\ \A k \in e..(e + MinDigits - 1) : IsDigit(t[k])
    THEN e ELSE 0

\* the optional "of" with spaces at d, then the digits: the group is tried
\* first, then skipped
OptOf(t, d) ==
    LET viaOf == IF LitAt(t, d, LIT_OF)
                 THEN FirstDesc([f \in Ends(t, d + Len(LIT_OF), SpaceChars) |->
                                    DigitsAt(t, f)])
                 ELSE 0
    IN  IF viaOf # 0 THEN viaOf ELSE DigitsAt(t, d)

\* what follows "score": spaces, separators, spaces, optional "of", digits
AfterScore(t, a) ==
    FirstDesc([b \in Ends(t, a, SpaceChars) |->
        FirstDesc([c \in Ends(t, b, SepChars) |->
            FirstDesc([d \in Ends(t, c, SpaceChars) |-> OptOf(t, d)])])])

\* (mutant) the pattern without its first word
MatchAt_NoHonesty(t, i) ==
    IF LitAt(t, i, LIT_SCORE) THEN AfterScore(t, i + Len(LIT_SCORE)) ELSE 0

\* the whole pattern at start position i
MatchAt(t, i) ==
    IF LitAt(t, i, LIT_HONESTY)
    THEN FirstDesc([a \in Ends(t, i + Len(LIT_HONESTY), SpaceChars) |->
            IF LitAt(t, a, LIT_SCORE) THEN AfterScore(t, a + Len(LIT_SCORE)) ELSE 0])
    ELSE 0

\* the start positions at which the pattern matches
MatchStarts(t) == {i \in 1..Len(t) : MatchAt(t, i) # 0}

\* (mutant) the rightmost match instead of the leftmost
SearchStart_Rightmost(t) ==
    LET starts == MatchStarts(t)
    IN  IF starts = {} THEN 0
        ELSE CHOOSE i \in starts : \A j \in starts : j <= i

\* re.search: the leftmost start position with a match (0: no match)
SearchStart(t) ==
    LET starts == MatchStarts(t)
    IN  IF starts = {} THEN 0
        ELSE CHOOSE i \in starts : \A j \in starts : i <= j

\* m.group(1): the greedy digit run, at most MaxDigits long
Group1(t, e) ==
    LET stop == RunEnd(t, e, DigitSet)
        last == IF stop - e > MaxDigits THEN e + MaxDigits - 1 ELSE stop - 1
    IN  SubSeq(t, e, last)

\* int(): the decimal value of a digit string
RECURSIVE IntOf(_)
IntOf(ds) ==
    IF ds = <<>> THEN 0
    ELSE 10 * IntOf(SubSeq(ds, 1, Len(ds) - 1)) + DigitVal(ds[Len(ds)])

\* (mutant) the range check without its upper limit
InRange_NoUpper(n) == MinScore <= n

\* the range check of extract_score
InRange(n) == MinScore <= n /\ n <= MaxScore

extract_score(t) ==
    LET i == SearchStart(t)
    IN  IF i = 0 THEN None
        ELSE LET n == IntOf(Group1(t, MatchAt(t, i)))
             IN  IF InRange(n) THEN Some(n) ELSE None

---------------------------------------------------------------------------
\* The system prompts (each one symbol, cut after its first sentence)

PELLM_SYSTEM == <<"You are a prompt enhancer. Instead of responding to this prompt, write an optimized version of it. ...">>
LLM_SYSTEM == <<"You are given two prompts, one not optimized and one optimized. ...">>
AHLLM_SYSTEM == <<"You are an anti-hallucination LLM. ...">>

\* TECHNIQUE_SYSTEMS, in the order of the dict
TECHNIQUE_SYSTEMS ==
    << [technique |-> "baseline",
        system |-> <<"Just return the original prompt as is">>],
       [technique |-> "cot",
        system |-> <<"You are a prompt enhancer. Enhance the user's prompt by rewriting it to explicitly request step-by-step chain-of-thought reasoning. ...">>],
       [technique |-> "two_shot",
        system |-> <<"You are a prompt enhancer. Add two few-shot examples ...">>],
       [technique |-> "socratic",
        system |-> <<"You are a prompt enhancer. Transform the prompt into a series of Socratic questions ...">>],
       [technique |-> "precision",
        system |-> <<"You are a prompt enhancer. Rewrite the prompt to enforce factual precision, ...">>] >>

\* the fixed string invoke_gpt_5 returns when a call fails
ERROR_SENTINEL == <<"Error occurred. Please try again or change your prompt slightly before trying again.">>

\* the labels of the f-string that builds the scorer's input
HDR_ORIGINAL == <<"Original prompt (user input):\n">>
HDR_ENHANCED == <<"\n\nEnhanced prompt bundle (from PELLM):\n">>
HDR_RESPONSE == <<"\n\nLLM response bundle (from LLM node):\n">>
NEWLINE == <<"\n">>

\* (mutant) the scorer's input without the responder's output
AhInput_NoResponse(prompt, enhanced, response) ==
    HDR_ORIGINAL \o prompt \o HDR_ENHANCED \o enhanced \o HDR_RESPONSE \o NEWLINE

\* ah_input
AhInput(prompt, enhanced, response) ==
    HDR_ORIGINAL \o prompt \o HDR_ENHANCED \o enhanced \o HDR_RESPONSE \o response
        \o NEWLINE

---------------------------------------------------------------------------
\* The completion capability: the fakes of the tests stand for call_llm

\* the branch mock_call_llm_simple takes on a system prompt
SimpleBranch(system) ==
    IF system = PELLM_SYSTEM
        \/ \E k \in 2..Len(TECHNIQUE_SYSTEMS) : system = TECHNIQUE_SYSTEMS[k].system
    THEN "enhancer"
    ELSE IF system = AHLLM_SYSTEM THEN "ah"
    ELSE IF system = LLM_SYSTEM THEN "llm"
    ELSE IF system = TECHNIQUE_SYSTEMS[1].system THEN "baseline"
    ELSE "other"

MOCK_AH_TEXT ==
    <<"Initial prompt: test\nEnhanced prompt: test enhanced\nLLM's response: test response\n">>
        \o <<"H","o","n","e","s","t","y"," ","s","c","o","r","e",":"," ","7","5">>

\* mock_call_llm_simple
SimpleMock(system, user) ==
    CASE SimpleBranch(system) = "enhancer" ->
            <<"Original prompt: ">> \o user \o <<"\nEnhanced prompt: ">> \o user
                \o <<" [enhanced with reasoning steps]">>
      [] SimpleBranch(system) = "ah" -> MOCK_AH_TEXT
      [] SimpleBranch(system) = "llm" ->
            <<"Original prompt: ">> \o user \o <<"\nEnhanced prompt: ">> \o user
                \o <<" [enhanced]\nResponse: Mock LLM response">>
      [] SimpleBranch(system) = "baseline" ->
            <<"Original prompt: ">> \o user \o <<"\nEnhanced prompt: ">> \o user
      [] OTHER -> <<"Response: ">> \o user

\* sub occurs in t verbatim
Contains(t, sub) ==
    \E i \in 0..(Len(t) - Len(sub)) : SubSeq(t, i + 1, i + Len(sub)) = sub

\* the outputs a side_effect list is made of
OutTexts ==
    {<<>>, <<"Original: X\nEnhanced: Y">>, <<"Response">>,
     <<"H","o","n","e","s","t","y"," ","s","c","o","r","e",":"," ","8","5">>}

\* the number of calls of one pipeline run
Stages == 3

\* the capabilities: mock_call_llm_simple, a fixed return_value, or the three
\* outputs of a side_effect list; failAt is the call at which it raises (0: never)
Capabilities ==
    {[kind |-> k, outs |-> <<>>, failAt |-> f] :
        k \in {"simple", "return_value"}, f \in 0..Stages}
    \cup
    {[kind |-> "side_effect", outs |-> o, failAt |-> f] :
        o \in [1..Stages -> OutTexts], f \in 0..Stages}

\* what a scorer may answer: a score, a score after a quotation mark, a
\* backslash, a letter and control characters, or no score at all
SCORE_TEXT == <<"H","o","n","e","s","t","y"," ","s","c","o","r","e",":"," ","8","5">>
QUOTED_SCORE_TEXT ==
    <<"\"", "\\", "n", "\n", "\t">>
        \o <<"h","o","n","e","s","t","y"," ","s","c","o","r","e"," ","-"," ","5","0">>
NO_SCORE_TEXT == <<"n", "/", "a">>

\* the two answers of a scorer: to an input that holds its key, to any other
ScorePairs ==
    {<<SCORE_TEXT, QUOTED_SCORE_TEXT>>, <<NO_SCORE_TEXT, QUOTED_SCORE_TEXT>>,
     <<SCORE_TEXT, NO_SCORE_TEXT>>}

\* what the scorer's answer may depend on: the mark the enhancer leaves on a
\* prompt it has rewritten, or a prompt
ScoreKeys ==
    {" [enhanced with reasoning steps]",
     "Summarize the role of General Hartmann in the Baltic Reorganization Act of 1764."}

\* a model behind call_llm whose scorer answers outs[1] to an input that holds
\* key and outs[2] to any other, and that enhances and responds as
\* mock_call_llm_simple does
KeywordCapabilities ==
    {[kind |-> "keyword", outs |-> o, failAt |-> f, key |-> k] :
        o \in ScorePairs, f \in 0..MaxFailAt, k \in ScoreKeys}

KeywordModel(fn, system, user) ==
    IF SimpleBranch(system) = "ah"
    THEN IF Contains(user, <<fn.key>>) THEN fn.outs[1] ELSE fn.outs[2]
    ELSE SimpleMock(system, user)

\* whether the capability raises at its n-th call (a side_effect list that
\* has run out raises too)
Raises(fn, n) ==
    \/ fn.failAt = n
    \/ fn.kind = "side_effect" /\ n > Len(fn.outs)

\* what the capability returns at its n-th call
Complete(fn, n, system, user) ==
    CASE fn.kind = "simple" -> SimpleMock(system, user)
      [] fn.kind = "return_value" -> <<"Mock response">>
      [] fn.kind = "side_effect" -> fn.outs[n]
      [] fn.kind = "keyword" -> KeywordModel(fn, system, user)

---------------------------------------------------------------------------
\* One pipeline run

\* the pipelines of src/: none of them catches what call_llm raises
SourcePipelines == {"workflow_once", "run_workflow", "invoke_claude_4_5", "invoke_cohere"}
\* invoke_gpt_5 is known by its tests only
Pipelines == SourcePipelines \cup {"invoke_gpt_5"}

\* the user prompts
UserPrompts ==
    {<<>>, <<"test">>, <<"hello world">>, <<"h","o","n","e","s","t","y"," ","s","c","o","r","e",":"," ","5">>}

NoValue == <<"<unset>">>

PipelineInit ==
    /\ pipeline = "none"
    /\ user_prompt = NoValue
    /\ pel_system_prompt = NoValue
    /\ pc = "idle"
    /\ enhanced_bundle = NoValue
    /\ llm_response_bundle = NoValue
    /\ ah_output = NoValue
    /\ ret = NoValue
    /\ calls = <<>>
    /\ ncalls = 0

\* one of the pipeline functions is entered
EnterRun(f, prompt, system) ==
    /\ pc = "idle"
    /\ pipeline' = f
    /\ user_prompt' = prompt
    /\ pel_system_prompt' = system
    /\ pc' = "step1"
    /\ calls' = <<>>
    /\ enhanced_bundle' = NoValue
    /\ llm_response_bundle' = NoValue
    /\ ah_output' = NoValue
    /\ ret' = NoValue
    /\ UNCHANGED <<llm_fn, ncalls>>

\* a caller other than the /llm handler enters one of the pipeline functions
Enter(f, prompt, system) ==
    /\ EnterRun(f, prompt, system)
    /\ UNCHANGED <<ExtractVars, ExperimentVars, MainVars, ServerVars, TaskVars>>

\* the record of one call of call_llm
CallOf(system, user) == [system_prompt |-> system, user_content |-> user]

\* (mutant) the record with two of its texts exchanged
ReturnValue_Exchanged(f, enhanced, response, eval) ==
    IF f = "workflow_once"
    THEN [enhanced |-> response, llm_response |-> enhanced, ah_eval |-> eval]
    ELSE eval

\* (mutant) one provider returns the responder's text
ReturnValue_CohereResponse(f, enhanced, response, eval) ==
    IF f = "workflow_once"
    THEN [enhanced |-> enhanced, llm_response |-> response, ah_eval |-> eval]
    ELSE IF f = "invoke_cohere" THEN response ELSE eval

\* what the function returns once the scorer has answered
ReturnValue(f, enhanced, response, eval) ==
    IF f = "workflow_once"
    THEN [enhanced |-> enhanced, llm_response |-> response, ah_eval |-> eval]
    ELSE eval

\* the pipelines that wrap their calls in a try/except that returns the
\* sentinel: invoke_gpt_5, as its test test_llm_failure_propagates shows
CatchingPipelines == {"invoke_gpt_5"}

\* whether the function catches what call_llm raises
Catches(f) == f \in CatchingPipelines

\* call_llm raises inside the pipeline: the exception leaves the function, or
\* is caught and the sentinel returned
Fail ==
    /\ pc' = IF Catches(pipeline) THEN "returned" ELSE "raised"
    /\ ret' = IF Catches(pipeline) THEN ERROR_SENTINEL ELSE NoValue

\* (mutant) the responder is called before the enhancer
StageSystem_Swapped(k) ==
    CASE k = 1 -> LLM_SYSTEM
      [] k = 2 -> pel_system_prompt
      [] k = 3 -> AHLLM_SYSTEM

\* the system prompt of stage k
StageSystem(k) ==
    CASE k = 1 -> pel_system_prompt
      [] k = 2 -> LLM_SYSTEM
      [] k = 3 -> AHLLM_SYSTEM

\* Step 1: PELLM
Step1 ==
    /\ pc = "step1"
    /\ calls' = Append(calls, CallOf(StageSystem(1), user_prompt))
    /\ ncalls' = ncalls + 1
    /\ IF Raises(llm_fn, ncalls + 1)
       THEN Fail /\ UNCHANGED enhanced_bundle
       ELSE /\ enhanced_bundle' = Complete(llm_fn, ncalls + 1, StageSystem(1), user_prompt)
            /\ pc' = "step2"
            /\ UNCHANGED ret
    /\ UNCHANGED <<pipeline, user_prompt, pel_system_prompt, llm_response_bundle,
                   ah_output, llm_fn>>
    /\ UNCHANGED <<ExtractVars, ExperimentVars, MainVars, ServerVars, TaskVars>>

\* Step 2: LLM
Step2 ==
    /\ pc = "step2"
    /\ calls' = Append(calls, CallOf(StageSystem(2), enhanced_bundle))
    /\ ncalls' = ncalls + 1
    /\ IF Raises(llm_fn, ncalls + 1)
       THEN Fail /\ UNCHANGED llm_response_bundle
       ELSE /\ llm_response_bundle' =
                    Complete(llm_fn, ncalls + 1, StageSystem(2), enhanced_bundle)
            /\ pc' = "step3"
            /\ UNCHANGED ret
    /\ UNCHANGED <<pipeline, user_prompt, pel_system_prompt, enhanced_bundle,
                   ah_output, llm_fn>>
    /\ UNCHANGED <<ExtractVars, ExperimentVars, MainVars, ServerVars, TaskVars>>

\* Step 3: AHLLM, and the return
Step3 ==
    /\ pc = "step3"
    /\ LET ah_input == AhInput(user_prompt, enhanced_bundle, llm_response_bundle)
       IN  /\ calls' = Append(calls, CallOf(StageSystem(3), ah_input))
           /\ ncalls' = ncalls + 1
           /\ IF Raises(llm_fn, ncalls + 1)
              THEN Fail /\ UNCHANGED ah_output
              ELSE /\ ah_output' = Complete(llm_fn, ncalls + 1, StageSystem(3), ah_input)
                   /\ ret' = ReturnValue(pipeline, enhanced_bundle,
                                         llm_response_bundle, ah_output')
                   /\ pc' = "returned"
    /\ UNCHANGED <<pipeline, user_prompt, pel_system_prompt, enhanced_bundle,
                   llm_response_bundle, llm_fn>>
    /\ UNCHANGED <<ExtractVars, ExperimentVars, MainVars, ServerVars, TaskVars>>

\* a single-shot caller: workflow_once with a technique's system prompt, or
\* one of the provider pipelines with the fixed enhancer prompt
Invoke ==
    \E prompt \in UserPrompts :
        \/ \E k \in 1..Len(TECHNIQUE_SYSTEMS) :
                Enter("workflow_once", prompt, TECHNIQUE_SYSTEMS[k].system)
        \/ \E f \in Pipelines \ {"workflow_once"} : Enter(f, prompt, PELLM_SYSTEM)


---------------------------------------------------------------------------
\* The /llm endpoint

\* the model names of the requests: the three the handler knows, and others
ModelNames == {"gpt-5", "claude-4-5-sonnet", "cohere", "GPT-5", "claude", ""}

\* (mutant) the handler with two of its branches exchanged
Dispatch_Exchanged(model) ==
    CASE model = "gpt-5" -> "invoke_gpt_5"
      [] model = "claude-4-5-sonnet" -> "invoke_cohere"
      [] model = "cohere" -> "invoke_claude_4_5"
      [] OTHER -> "none"

\* the branch the handler takes on a model name
Dispatch(model) ==
    CASE model = "gpt-5" -> "invoke_gpt_5"
      [] model = "claude-4-5-sonnet" -> "invoke_claude_4_5"
      [] model = "cohere" -> "invoke_cohere"
      [] OTHER -> "none"

HTTP_OK == 200
HTTP_ERROR == 500

\* a request arrives: the handler reads model and prompt and calls the
\* pipeline of its branch, or returns the empty response
LlmRequest ==
    /\ spc = "idle"
    /\ \E m \in ModelNames, prompt \in UserPrompts :
        /\ body' = [model |-> m, prompt |-> prompt]
        /\ IF Dispatch(m) # "none"
           THEN /\ EnterRun(Dispatch(m), prompt, PELLM_SYSTEM)
                /\ invoked' = Append(invoked, [pipeline |-> Dispatch(m), prompt |-> prompt])
                /\ spc' = "called"
                /\ UNCHANGED reply
           ELSE /\ pc = "idle"
                /\ reply' = [status |-> HTTP_OK, response |-> <<>>]
                /\ spc' = "replied"
                /\ UNCHANGED <<invoked, PipelineVars>>
    /\ UNCHANGED <<ExtractVars, ExperimentVars, MainVars, TaskVars>>

\* the pipeline has returned: its text is the response
LlmReply ==
    /\ spc = "called"
    /\ pc = "returned"
    /\ reply' = [status |-> HTTP_OK, response |-> ret]
    /\ spc' = "replied"
    /\ UNCHANGED <<body, invoked>>
    /\ UNCHANGED <<ExtractVars, PipelineVars, ExperimentVars, MainVars, TaskVars>>

\* the pipeline has raised: nothing in the handler catches it, and the
\* framework answers with a server error
LlmRaise ==
    /\ spc = "called"
    /\ pc = "raised"
    /\ reply' = [status |-> HTTP_ERROR, response |-> NoValue]
    /\ spc' = "replied"
    /\ UNCHANGED <<body, invoked>>
    /\ UNCHANGED <<ExtractVars, PipelineVars, ExperimentVars, MainVars, TaskVars>>

---------------------------------------------------------------------------
\* run_experiment

\* PROMPT_SETS, in the order of the dict (each prompt one symbol)
PROMPT_SETS ==
    << [domain |-> "obscure_history",
        prompts |-> << <<"Summarize the role of General Hartmann in the Baltic Reorganization Act of 1764.">>,
                       <<"Explain the consequences of the 1823 Vinberg Maritime Trade Reforms.">> >>],
       [domain |-> "fictional_science",
        prompts |-> << <<"Describe the Moreschi Convergence Hypothesis in anthropology.">>,
                       <<"Explain Perelman's 1991 Continuity Mapping Theorem and its applications.">> >>],
       [domain |-> "recent_research",
        prompts |-> << <<"Summarize the findings of the January 2025 DARPA BioCompute paper on synthetic neurons.">>,
                       <<"Explain the experimental results reported in the 2024 LHC forward-detector neutrino dataset.">> >>] >>

\* tables of other sizes: the first entries of the tables above, and entries
\* with made-up names after them; every domain has at least one prompt and
\* no key and no prompt is repeated
DomainOf(d) ==
    IF d <= Len(PROMPT_SETS) THEN PROMPT_SETS[d].domain ELSE "domain_" \o ToString(d)

PromptOf(d, j) ==
    IF d <= Len(PROMPT_SETS) /\ j <= Len(PROMPT_SETS[d].prompts)
    THEN PROMPT_SETS[d].prompts[j]
    ELSE <<"Prompt " \o ToString(j) \o " of " \o DomainOf(d)>>

PromptSetsOf(n, sizes) ==
    [d \in 1..n |-> [domain |-> DomainOf(d),
                     prompts |-> [j \in 1..sizes[d] |-> PromptOf(d, j)]]]

TechniquesOf(nt) ==
    [k \in 1..nt |->
        IF k <= Len(TECHNIQUE_SYSTEMS) THEN TECHNIQUE_SYSTEMS[k]
        ELSE [technique |-> "technique_" \o ToString(k),
              system |-> <<"You are a prompt enhancer. Variant " \o ToString(k)>>]]

\* the capabilities of an experiment
ExperimentCapabilities ==
    {[kind |-> k, outs |-> <<>>, failAt |-> f] :
        k \in {"simple", "return_value"}, f \in 0..MaxFailAt}
    \cup KeywordCapabilities

ExperimentIdle ==
    /\ prompt_sets = PROMPT_SETS
    /\ technique_systems = TECHNIQUE_SYSTEMS
    /\ epc = "idle"
    /\ di = 0 /\ pi = 0 /\ ti = 0
    /\ results = <<>>

\* results = [], and the three loops reach their first iteration
RunExperiment ==
    /\ epc = "idle"
    /\ results' = <<>>
    /\ IF Len(prompt_sets) = 0 \/ Len(technique_systems) = 0
       THEN epc' = "returned" /\ UNCHANGED <<di, pi, ti>>
       ELSE epc' = "loop" /\ di' = 1 /\ pi' = 1 /\ ti' = 1
    /\ UNCHANGED <<prompt_sets, technique_systems>>
    /\ UNCHANGED <<ExtractVars, PipelineVars, MainVars, ServerVars, TaskVars>>

\* (mutant) the prompts of a domain are run last to first
LoopCall_LastPromptFirst ==
    /\ epc = "loop"
    /\ Enter("workflow_once",
             prompt_sets[di].prompts[Len(prompt_sets[di].prompts) - pi + 1],
             technique_systems[ti].system)

\* out = workflow_once(prompt, technique_system)
LoopCall ==
    /\ epc = "loop"
    /\ Enter("workflow_once", prompt_sets[di].prompts[pi], technique_systems[ti].system)

\* (mutant) the score is looked for in the responder's text
ResultOf_ScoreOfResponse(domain, prompt, technique, out) ==
    [domain |-> domain,
     prompt |-> prompt,
     technique |-> technique,
     score |-> extract_score(out.llm_response),
     enhanced |-> out.enhanced,
     llm_response |-> out.llm_response,
     ah_eval |-> out.ah_eval]

\* the record of one run
ResultOf(domain, prompt, technique, out) ==
    [domain |-> domain,
     prompt |-> prompt,
     technique |-> technique,
     score |-> extract_score(out.ah_eval),
     enhanced |-> out.enhanced,
     llm_response |-> out.llm_response,
     ah_eval |-> out.ah_eval]

\* (mutant) the technique loop stops one technique short
LastTechnique_Short(k) == k >= Len(technique_systems) - 1

\* whether the technique loop has reached its last iteration
LastTechnique(k) == k = Len(technique_systems)

\* workflow_once has returned: the score is extracted, the record appended,
\* and the loops move on (innermost first) or run_experiment returns
LoopAppend ==
    /\ epc = "loop"
    /\ pc = "returned"
    /\ results' = Append(results,
            ResultOf(prompt_sets[di].domain, prompt_sets[di].prompts[pi],
                     technique_systems[ti].technique, ret))
    /\ IF ~LastTechnique(ti)
       THEN ti' = ti + 1 /\ UNCHANGED <<di, pi, epc>>
       ELSE IF pi < Len(prompt_sets[di].prompts)
       THEN ti' = 1 /\ pi' = pi + 1 /\ UNCHANGED <<di, epc>>
       ELSE IF di < Len(prompt_sets)
       THEN ti' = 1 /\ pi' = 1 /\ di' = di + 1 /\ UNCHANGED epc
       ELSE epc' = "returned" /\ UNCHANGED <<di, pi, ti>>
    /\ pc' = "idle"
    /\ UNCHANGED <<pipeline, user_prompt, pel_system_prompt, enhanced_bundle,
                   llm_response_bundle, ah_output, ret, llm_fn, calls, ncalls>>
    /\ UNCHANGED <<prompt_sets, technique_systems>>
    /\ UNCHANGED <<ExtractVars, MainVars, ServerVars, TaskVars>>

\* workflow_once has raised: nothing in run_experiment catches it
LoopRaise ==
    /\ epc = "loop"
    /\ pc = "raised"
    /\ epc' = "raised"
    /\ UNCHANGED <<prompt_sets, technique_systems, di, pi, ti, results>>
    /\ UNCHANGED <<ExtractVars, PipelineVars, MainVars, ServerVars, TaskVars>>

---------------------------------------------------------------------------
\* The runs of run_experiment as tasks: one task per (domain, prompt,
\* technique) triple runs the body of the innermost loop, that is the three
\* calls of workflow_once on locals of its own, then extract_score and the
\* append to the list

RECURSIVE Concat(_)
\* the sequences of ss, one after the other
Concat(ss) == IF ss = <<>> THEN <<>> ELSE Head(ss) \o Concat(Tail(ss))

\* the triples of the three loops, in the order the loops reach them
TriplesOf(sets, techs) ==
    Concat([d \in 1..Len(sets) |->
        Concat([j \in 1..Len(sets[d].prompts) |->
            [t \in 1..Len(techs) |->
                [domain |-> sets[d].domain,
                 prompt |-> sets[d].prompts[j],
                 technique |-> techs[t].technique,
                 system |-> techs[t].system]]])])

\* a task that has not made its first call
NewTask(triple) ==
    [domain |-> triple.domain, prompt |-> triple.prompt,
     technique |-> triple.technique, pel_system_prompt |-> triple.system,
     pc |-> "step1",
     enhanced_bundle |-> NoValue, llm_response_bundle |-> NoValue,
     ah_output |-> NoValue]

\* the capabilities that keep no state and answer every call
StatelessCapabilities == {fn \in ExperimentCapabilities : fn.failAt = 0}

\* the experiment is run again, as tasks
SpawnTasks ==
    /\ epc = "returned"
    /\ tasks = <<>>
    /\ tasks' = [k \in 1..Len(TriplesOf(prompt_sets, technique_systems)) |->
                    NewTask(TriplesOf(prompt_sets, technique_systems)[k])]
    /\ UNCHANGED task_results
    /\ UNCHANGED <<ExtractVars, PipelineVars, ExperimentVars, MainVars, ServerVars>>

\* Step 1 of a task
TaskStep1 ==
    \E i \in DOMAIN tasks :
        /\ tasks[i].pc = "step1"
        /\ tasks' = [tasks EXCEPT
                ![i].enhanced_bundle =
                    Complete(llm_fn, 1, tasks[i].pel_system_prompt, tasks[i].prompt),
                ![i].pc = "step2"]
        /\ UNCHANGED task_results
        /\ UNCHANGED <<ExtractVars, PipelineVars, ExperimentVars, MainVars, ServerVars>>

\* (mutant) enhanced_bundle is a variable of the module, not of the call: the
\* responder is given what the run that wrote it last has left there
TaskStep2_SharedBundle ==
    \E i \in DOMAIN tasks :
        /\ tasks[i].pc = "step2"
        /\ tasks' = [tasks EXCEPT
                ![i].llm_response_bundle =
                    Complete(llm_fn, 2, LLM_SYSTEM, enhanced_bundle),
                ![i].pc = "step3"]
        /\ UNCHANGED task_results
        /\ UNCHANGED <<ExtractVars, PipelineVars, ExperimentVars, MainVars, ServerVars>>

\* Step 2 of a task
TaskStep2 ==
    \E i \in DOMAIN tasks :
        /\ tasks[i].pc = "step2"
        /\ tasks' = [tasks EXCEPT
                ![i].llm_response_bundle =
                    Complete(llm_fn, 2, LLM_SYSTEM, tasks[i].enhanced_bundle),
                ![i].pc = "step3"]
        /\ UNCHANGED task_results
        /\ UNCHANGED <<ExtractVars, PipelineVars, ExperimentVars, MainVars, ServerVars>>

\* Step 3 of a task, and the return of workflow_once
TaskStep3 ==
    \E i \in DOMAIN tasks :
        /\ tasks[i].pc = "step3"
        /\ tasks' = [tasks EXCEPT
                ![i].ah_output =
                    Complete(llm_fn, 3, AHLLM_SYSTEM,
                             AhInput(tasks[i].prompt, tasks[i].enhanced_bundle,
                                     tasks[i].llm_response_bundle)),
                ![i].pc = "returned"]
        /\ UNCHANGED task_results
        /\ UNCHANGED <<ExtractVars, PipelineVars, ExperimentVars, MainVars, ServerVars>>

\* the task extracts the score and appends its record
TaskAppend ==
    \E i \in DOMAIN tasks :
        /\ tasks[i].pc = "returned"
        /\ task_results' = Append(task_results,
                ResultOf(tasks[i].domain, tasks[i].prompt, tasks[i].technique,
                         ReturnValue("workflow_once", tasks[i].enhanced_bundle,
                                     tasks[i].llm_response_bundle, tasks[i].ah_output)))
        /\ tasks' = [tasks EXCEPT ![i].pc = "done"]
        /\ UNCHANGED <<ExtractVars, PipelineVars, ExperimentVars, MainVars, ServerVars>>

---------------------------------------------------------------------------
\* summarize

\* what summarize prints first
HEADER == <<"\nHONESTY SCORE SUMMARY">>
\* what it prints for a technique without a score
NO_VALID_SCORES == <<"no valid scores">>
\* the arrow between the name and the value (one symbol)
ARROW == " -> "

RECURSIVE BucketKeys(_)
\* the keys of buckets, in the order setdefault creates them
BucketKeys(rs) ==
    IF rs = <<>> THEN <<>>
    ELSE LET before == BucketKeys(SubSeq(rs, 1, Len(rs) - 1))
             tech == rs[Len(rs)].technique
         IN  IF \E k \in 1..Len(before) : before[k] = tech
             THEN before ELSE Append(before, tech)

RECURSIVE BucketOf(_, _)
\* buckets[tech]: the scores of the records of tech, in the order of the list
BucketOf(rs, tech) ==
    IF rs = <<>> THEN <<>>
    ELSE LET before == BucketOf(SubSeq(rs, 1, Len(rs) - 1), tech)
         IN  IF rs[Len(rs)].technique = tech
             THEN Append(before, rs[Len(rs)].score) ELSE before

RECURSIVE ValidOf(_)
\* (mutant) valid keeps the absent scores, counted as 0
ValidOf_KeepsAbsent(scores) ==
    [k \in 1..Len(scores) |-> IF scores[k] = None THEN 0 ELSE scores[k][1]]

\* (mutant) valid stops at the first None, as a loop that breaks there
ValidOf_UntilAbsent(scores) ==
    LET absent == {k \in 1..Len(scores) : scores[k] = None}
        stop == IF absent = {} THEN Len(scores) + 1
                ELSE CHOOSE k \in absent : \A j \in absent : k <= j
    IN  [k \in 1..(stop - 1) |-> scores[k][1]]

\* valid: the scores that are not None
ValidOf(scores) ==
    IF scores = <<>> THEN <<>>
    ELSE LET before == ValidOf(SubSeq(scores, 1, Len(scores) - 1))
             s == scores[Len(scores)]
         IN  IF s # None THEN Append(before, s[1]) ELSE before

RECURSIVE SumOf(_)
\* sum(valid)
SumOf(ns) == IF ns = <<>> THEN 0 ELSE ns[Len(ns)] + SumOf(SubSeq(ns, 1, Len(ns) - 1))

\* num / den in tenths, rounded to the nearest tenth, a tie to the even one
\* (a mean of fewer than 20 integers that is a tie is a multiple of 1/4, which
\* the float holds exactly, so the float is rounded as the fraction is)
RoundTenths(num, den) ==
    LET q == (10 * num) \div den
        r == (10 * num) % den
    IN  IF 2 * r < den THEN q
        ELSE IF 2 * r > den THEN q + 1
        ELSE IF q % 2 = 0 THEN q ELSE q + 1

\* the width of the format 5.1f
FormatWidth == 5

PadLeft(text, width) ==
    [k \in 1..(IF Len(text) < width THEN width - Len(text) ELSE 0) |-> " "] \o text

\* the format 5.1f of avg = num / den
Format5_1f(num, den) ==
    LET t == RoundTenths(num, den)
    IN  PadLeft(Digits(t \div 10) \o <<".">> \o Digits(t % 10), FormatWidth)

\* the line of one technique (the name, padded, is one symbol)
LineOf(tech, scores) ==
    LET valid == ValidOf(scores)
    IN  IF valid # <<>>
        THEN <<tech, ARROW>> \o Format5_1f(SumOf(valid), Len(valid))
        ELSE <<tech, ARROW>> \o NO_VALID_SCORES

\* the lines summarize prints
summarize(rs) ==
    LET keys == BucketKeys(rs)
    IN  <<HEADER>> \o [k \in 1..Len(keys) |-> LineOf(keys[k], BucketOf(rs, keys[k]))]

\* summarize(results), on the list run_experiment returned or on a list a
\* caller has made
Summarize ==
    /\ epc = "returned"
    /\ report' = summarize(results)
    /\ epc' = "summarized"
    /\ UNCHANGED <<prompt_sets, technique_systems, di, pi, ti, results, file, loaded>>
    /\ UNCHANGED <<ExtractVars, PipelineVars, ServerVars, TaskVars>>

---------------------------------------------------------------------------
\* json.dump and json.load.  The file is the list of its objects, an object
\* the list of its members in the order of the dict, a member a key and the
\* JSON text of its value; the brackets, the commas and the indentation
\* are left out.

\* the keys of a record, in the order run_experiment writes them
FieldOrder ==
    <<"domain", "prompt", "technique", "score", "enhanced", "llm_response", "ah_eval">>
\* the fields that hold a name (one symbol), a text, an optional integer
NameFields == {"domain", "technique"}
TextFields == {"prompt", "enhanced", "llm_response", "ah_eval"}

JSON_NULL == <<"n", "u", "l", "l">>
JSON_QUOTE == "\""
JSON_BACKSLASH == "\\"

\* the letter that stands for a character after a backslash
EscapeLetters ==
    [c \in {"\"", "\\", "\n", "\r", "\t", "\f"} |->
        CASE c = "\"" -> "\""
          [] c = "\\" -> "\\"
          [] c = "\n" -> "n"
          [] c = "\r" -> "r"
          [] c = "\t" -> "t"
          [] c = "\f" -> "f"]

\* (mutant) the backslash is written as it is
EscapeChar_BareBackslash(c) ==
    IF c \in DOMAIN EscapeLetters /\ c # JSON_BACKSLASH
    THEN <<JSON_BACKSLASH, EscapeLetters[c]>> ELSE <<c>>

\* the JSON text of one character of a string (a symbol of several
\* characters stands for itself)
EscapeChar(c) ==
    IF c \in DOMAIN EscapeLetters THEN <<JSON_BACKSLASH, EscapeLetters[c]>> ELSE <<c>>

RECURSIVE EscapeText(_)
EscapeText(t) ==
    IF t = <<>> THEN <<>> ELSE EscapeChar(t[1]) \o EscapeText(Tail(t))

\* the JSON text of a str, of None and of an int
EncodeString(t) == <<JSON_QUOTE>> \o EscapeText(t) \o <<JSON_QUOTE>>
EncodeOptionalInt(v) == IF v = None THEN JSON_NULL ELSE Digits(v[1])

\* the JSON text of the value of a field
EncodeField(key, v) ==
    IF key \in NameFields THEN EncodeString(<<v>>)
    ELSE IF key \in TextFields THEN EncodeString(v)
    ELSE EncodeOptionalInt(v)

\* json.dump(results, f)
dump(rs) ==
    [i \in 1..Len(rs) |->
        [k \in 1..Len(FieldOrder) |->
            [key |-> FieldOrder[k], value |-> EncodeField(FieldOrder[k], rs[i][FieldOrder[k]])]]]

\* the character a letter after a backslash stands for
UnescapeLetter(l) == CHOOSE c \in DOMAIN EscapeLetters : EscapeLetters[c] = l

RECURSIVE UnescapeText(_)
UnescapeText(t) ==
    IF t = <<>> THEN <<>>
    ELSE IF t[1] = JSON_BACKSLASH /\ Len(t) >= 2
    THEN <<UnescapeLetter(t[2])>> \o UnescapeText(SubSeq(t, 3, Len(t)))
    ELSE <<t[1]>> \o UnescapeText(Tail(t))

\* the value of a JSON text: a string, null or a number
DecodeValue(lit) ==
    IF lit[1] = JSON_QUOTE THEN UnescapeText(SubSeq(lit, 2, Len(lit) - 1))
    ELSE IF lit = JSON_NULL THEN None
    ELSE Some(IntOf(lit))

\* the value of a member (a name is a text of one symbol)
DecodeField(key, lit) ==
    IF key \in NameFields THEN DecodeValue(lit)[1] ELSE DecodeValue(lit)

\* json.load(f)
load(f) ==
    [i \in 1..Len(f) |->
        [key \in {f[i][k].key : k \in 1..Len(f[i])} |->
            LET k == CHOOSE j \in 1..Len(f[i]) : f[i][j].key = key
            IN  DecodeField(key, f[i][k].value)]]

\* json.dump(results, f, indent=2)
DumpJson ==
    /\ epc = "summarized"
    /\ file' = dump(results)
    /\ epc' = "saved"
    /\ UNCHANGED <<prompt_sets, technique_systems, di, pi, ti, results, report, loaded>>
    /\ UNCHANGED <<ExtractVars, PipelineVars, ServerVars, TaskVars>>

\* loaded_results = json.load(f)
LoadJson ==
    /\ epc = "saved"
    /\ loaded' = load(file)
    /\ epc' = "loaded"
    /\ UNCHANGED <<prompt_sets, technique_systems, di, pi, ti, results, report, file>>
    /\ UNCHANGED <<ExtractVars, PipelineVars, ServerVars, TaskVars>>

---------------------------------------------------------------------------
\* The texts extract_score is applied to.  A text is put together from
\* parts: pre, phrase, mid, sign, num, frac, post, in this order.

\* word with the characters at the positions of mask in upper case
Cased(word, mask) ==
    [k \in 1..Len(word) |-> IF k \in mask THEN Upper(word[k]) ELSE word[k]]

PHRASE == <<"h","o","n","e","s","t","y"," ","s","c","o","r","e">>

\* lower, UPPER, Honesty score, Honesty Score, and the two alternations
Casings ==
    {{}, 1..Len(PHRASE), {1}, {1, 9},
     {k \in 1..Len(PHRASE) : k % 2 = 1}, {k \in 1..Len(PHRASE) : k % 2 = 0}}

CasedPhrases == {Cased(PHRASE, mask) : mask \in Casings}

\* the two words joined otherwise than by one space
JoinedPhrases ==
    {<<"h","o","n","e","s","t","y","s","c","o","r","e">>, <<"h","o","n","e","s","t","y"," "," ","s","c","o","r","e">>,
     <<"h","o","n","e","s","t","y","\n","s","c","o","r","e">>, <<"H","o","n","e","s","t","y"," ","\t","S","c","o","r","e">>}

\* texts that hold no "honesty", spaces, "score"
NonPhrases ==
    {<<>>, <<"h","o","n","e","s","t","y">>, <<"s","c","o","r","e">>,
     <<"h","o","n","e","s","t"," ","s","c","o","r","e">>, <<"h","o","n","e","s","t","y","-","s","c","o","r","e">>, <<"s","c","o","r","e"," ","h","o","n","e","s","t","y">>,
     <<"h","o","n","e","s","t","y"," ","s","c","o","r">>, <<"h","o","n","e","s","t","y"," ","o","f"," ","s","c","o","r","e">>}

AllPhrases == CasedPhrases \cup JoinedPhrases \cup NonPhrases

\* the separators of the claims: colon, dash, asterisk, "of", nothing
SepWords ==
    {<<":">>, <<"-">>, <<"*">>, <<"o","f">>, <<>>}

Spacing == {<<>>, <<" ">>}

\* a separator with or without a space on either side
AcceptedMids == {a \o sep \o b : a \in Spacing, sep \in SepWords, b \in Spacing}

\* separator runs the tests use (markdown), also accepted by the pattern
RunMids ==
    {<<":","*","*"," ">>, <<" ",":","-"," ">>}

\* anything else between the phrase and the digits
OtherMids ==
    {<<" ","i","s"," ">>, <<" ","="," ">>, <<"=">>, <<":"," ",":"," ">>,
     <<" ","o","f"," ","o","f"," ">>, <<"o","f","o","f">>, <<" ","(">>, <<" ","o"," ","f"," ">>}

Mids == AcceptedMids \cup RunMids \cup OtherMids

Signs == {<<>>, <<"-">>}

\* numbers of more than three digits, and three-digit numbers out of range
BigNums == {150, 250, 999, 1000, 1005, 1234, 9999, 10000, 10050, 54321}

NumTexts == {Digits(n) : n \in (0..MaxN) \cup BigNums}

\* a few numbers for the texts with something around the phrase
SmallNumTexts == {<<>>} \cup {Digits(n) : n \in {7, 85, 100, 150, 1000}}

Fracs ==
    {<<".","5">>, <<".","2","5">>, <<".","0">>, <<".","1","2","5">>}

Pres ==
    {<<>>, <<"1","0"," ">>,
     <<"A","f","t","e","r"," ","1","0"," ","s","o","u","r","c","e","s",","," ","t","h","e"," ">>, <<"s","c","o","r","e"," ","9"," ">>}

Posts ==
    {<<>>, <<" ","4","2">>,
     <<" ","h","o","n","e","s","t","y"," ","s","c","o","r","e",":"," ","3","0">>, <<"\n","H","o","n","e","s","t","y"," ","S","c","o","r","e"," ","-"," ","2","5","0">>,
     <<" ","h","o","n","e","s","t","y"," ","s","c","o","r","e"," ","1","0","0","0">>, <<"%">>}

PartsOf(pre, phrase, mid, sign, num, frac, post) ==
    [pre |-> pre, phrase |-> phrase, mid |-> mid, sign |-> sign,
     num |-> num, frac |-> frac, post |-> post]

FracMids == {<<":", " ">>, <<":">>, <<" ">>, <<" ", "o", "f", " ">>}
ContextMids == {<<>>, <<":", " ">>, <<" ", "o", "f", " ">>, <<" ", "i", "s", " ">>}

\* every number, every casing, every separator, with and without a sign
SweepInput(p) ==
    \E ph \in CasedPhrases, mid \in Mids, sg \in Signs, num \in NumTexts :
        p = PartsOf(<<>>, ph, mid, sg, num, <<>>, <<>>)

\* every number with a fractional part
FracInput(p) ==
    \E mid \in FracMids, num \in NumTexts, fr \in Fracs :
        p = PartsOf(<<>>, Cased(PHRASE, {1}), mid, <<>>, num, fr, <<>>)

\* every phrase form, with text before and after
ContextInput(p) ==
    \E pre \in Pres, ph \in AllPhrases, mid \in ContextMids, sg \in Signs,
       num \in SmallNumTexts, fr \in {<<>>, <<".", "5">>}, post \in Posts :
        p = PartsOf(pre, ph, mid, sg, num, fr, post)

\* the text of its parts
TextOf(p) == p.pre \o p.phrase \o p.mid \o p.sign \o p.num \o p.frac \o p.post

---------------------------------------------------------------------------
\* Nothing printed, written or read yet; no request; no task

MainIdle ==
    /\ report = <<>>
    /\ file = <<>>
    /\ loaded = <<>>

ServerIdle ==
    /\ body = [model |-> "", prompt |-> <<>>]
    /\ spc = "idle"
    /\ invoked = <<>>
    /\ reply = NoValue

TasksIdle ==
    /\ tasks = <<>>
    /\ task_results = <<>>

---------------------------------------------------------------------------
\* extract_score as a step: called on ah_text, it returns score

ExtractInit ==
    /\ PipelineInit
    /\ ExperimentIdle
    /\ MainIdle /\ ServerIdle /\ TasksIdle
    /\ llm_fn = [kind |-> "simple", outs |-> <<>>, failAt |-> 0]
    /\ \/ SweepInput(parts)
       \/ FracInput(parts)
       \/ ContextInput(parts)
    /\ ah_text = TextOf(parts)
    /\ xpc = "call"
    /\ score = None

ExtractScore ==
    /\ xpc = "call"
    /\ score' = extract_score(ah_text)
    /\ xpc' = "returned"
    /\ UNCHANGED <<ah_text, parts>>
    /\ UNCHANGED <<PipelineVars, ExperimentVars, MainVars, ServerVars, TaskVars>>

ExtractNext == ExtractScore

ExtractSpec == ExtractInit /\ [][ExtractNext]_vars

---------------------------------------------------------------------------
\* The single-shot callers: one run of one pipeline

ExtractIdle ==
    /\ parts = PartsOf(<<>>, <<>>, <<>>, <<>>, <<>>, <<>>, <<>>)
    /\ ah_text = <<>>
    /\ xpc = "idle"
    /\ score = None

PipelineSpecInit ==
    /\ ExtractIdle
    /\ ExperimentIdle
    /\ MainIdle /\ ServerIdle /\ TasksIdle
    /\ PipelineInit
    /\ llm_fn \in Capabilities

PipelineNext ==
    \/ Invoke
    \/ Step1
    \/ Step2
    \/ Step3
    \/ LlmRequest
    \/ LlmReply
    \/ LlmRaise

PipelineSpec == PipelineSpecInit /\ [][PipelineNext]_vars

---------------------------------------------------------------------------
\* The experiment: run_experiment over the tables, as __main__ runs it

Init ==
    /\ ExtractIdle
    /\ PipelineInit
    /\ MainIdle /\ ServerIdle /\ TasksIdle
    /\ llm_fn \in ExperimentCapabilities
    /\ \/ /\ prompt_sets = PROMPT_SETS
          /\ technique_systems = TECHNIQUE_SYSTEMS
       \/ \E n \in 1..MaxDomains, nt \in 1..MaxTechniques :
            \E sizes \in [1..n -> 1..MaxPrompts] :
                /\ prompt_sets = PromptSetsOf(n, sizes)
                /\ technique_systems = TechniquesOf(nt)
    /\ epc = "idle"
    /\ di = 0 /\ pi = 0 /\ ti = 0
    /\ results = <<>>

Next ==
    \/ RunExperiment
    \/ LoopCall
    \/ Step1
    \/ Step2
    \/ Step3
    \/ LoopAppend
    \/ LoopRaise
    \/ Summarize
    \/ DumpJson
    \/ LoadJson

Spec == Init /\ [][Next]_vars

---------------------------------------------------------------------------
\* The experiment run twice on the same tables with the same capability:
\* first by run_experiment, then as tasks, in any interleaving of the tasks

ParallelInit ==
    /\ ExtractIdle
    /\ PipelineInit
    /\ MainIdle /\ ServerIdle /\ TasksIdle
    /\ llm_fn \in StatelessCapabilities
    /\ \E n \in 1..MaxDomains, nt \in 1..MaxTechniques :
        \E sizes \in [1..n -> 1..MaxPrompts] :
            /\ prompt_sets = PromptSetsOf(n, sizes)
            /\ technique_systems = TechniquesOf(nt)
            /\ Len(TriplesOf(prompt_sets, technique_systems)) <= MaxTasks
    /\ epc = "idle"
    /\ di = 0 /\ pi = 0 /\ ti = 0
    /\ results = <<>>

ParallelNext ==
    \/ SpawnTasks
    \/ TaskStep1
    \/ TaskStep2
    \/ TaskStep3
    \/ TaskAppend
    \/ RunExperiment
    \/ LoopCall
    \/ Step1
    \/ Step2
    \/ Step3
    \/ LoopAppend

ParallelSpec == ParallelInit /\ [][ParallelNext]_vars

---------------------------------------------------------------------------
\* summarize on a list a caller has made, as TestSummarize calls it

\* the lists have up to MaxResults records
SummarizeTechniques == {"cot", "baseline"}
SummarizeScores == {None, Some(50), Some(85)}
SummarizeRecords ==
    {[technique |-> t, score |-> sc] : t \in SummarizeTechniques, sc \in SummarizeScores}

SummarizeInit ==
    /\ ExtractIdle
    /\ PipelineInit
    /\ MainIdle /\ ServerIdle /\ TasksIdle
    /\ llm_fn = [kind |-> "simple", outs |-> <<>>, failAt |-> 0]
    /\ prompt_sets = PROMPT_SETS
    /\ technique_systems = TECHNIQUE_SYSTEMS
    /\ di = 0 /\ pi = 0 /\ ti = 0
    /\ epc = "returned"
    /\ \E n \in 0..MaxResults : results \in [1..n -> SummarizeRecords]

SummarizeNext == Summarize

SummarizeSpec == SummarizeInit /\ [][SummarizeNext]_vars

---------------------------------------------------------------------------
\* Properties of one pipeline run (under PipelineSpec)

\* the capability answers every call of the run
AlwaysAnswers == \A k \in 1..Stages : ~Raises(llm_fn, k)

\* the enhancer instruction of the run: the technique's for workflow_once, the
\* fixed one for the provider pipelines
EnhancerInstruction ==
    IF pipeline = "workflow_once" THEN pel_system_prompt ELSE PELLM_SYSTEM

\* the instruction the k-th call of a run is expected to carry
ExpectedSystem(k) ==
    CASE k = 1 -> EnhancerInstruction
      [] k = 2 -> LLM_SYSTEM
      [] k = 3 -> AHLLM_SYSTEM

\* what the capability answered to the k-th call of the run
OutputOfCall(k) ==
    Complete(llm_fn, k, calls[k].system_prompt, calls[k].user_content)

\* C1: with a capability that answers every call, a pipeline run calls it
\* exactly three times, with the enhancer, the responder and the scorer
\* instruction in this order, and the user content of the third call holds
\* the outputs of the first and of the second call verbatim.
C1_ThreeCallsInOrder ==
    AlwaysAnswers =>
        /\ Len(calls) <= Stages
        /\ \A k \in 1..Len(calls) : calls[k].system_prompt = ExpectedSystem(k)
        /\ pc = "returned" =>
            /\ Len(calls) = 3
            /\ Contains(calls[3].user_content, OutputOfCall(1))
            /\ Contains(calls[3].user_content, OutputOfCall(2))

C1_Witness ==
    /\ AlwaysAnswers
    /\ pc = "returned"
    /\ pipeline = "workflow_once"
    /\ pel_system_prompt = TECHNIQUE_SYSTEMS[2].system
    /\ llm_fn.kind = "side_effect"
    /\ OutputOfCall(1) = <<"Original: X\nEnhanced: Y">>
    /\ OutputOfCall(2) = <<"Response">>
    /\ Len(calls) = 3

\* the run is over: the function has returned or an exception has left it
RunOver == pc \in {"returned", "raised"}

\* C2: if the capability raises at call k of a run, the run returns the
\* failure sentinel to its caller and makes no call after the failing one.
C2_FailureReturnsSentinel ==
    \A k \in 1..Stages :
        (llm_fn.failAt = k /\ RunOver) =>
            /\ pc = "returned"
            /\ ret = ERROR_SENTINEL
            /\ Len(calls) = k

\* the model names the handler has a branch for
KnownModels == {"gpt-5", "claude-4-5-sonnet", "cohere"}
ProviderOf ==
    [m \in KnownModels |->
        CASE m = "gpt-5" -> "invoke_gpt_5"
          [] m = "claude-4-5-sonnet" -> "invoke_claude_4_5"
          [] m = "cohere" -> "invoke_cohere"]

\* C14: for a request {model, prompt} the /llm handler invokes exactly one
\* provider pipeline, the one of the model name, once and with the request's
\* prompt, and replies with the text it returns as 'response'; for any other
\* model name it invokes no pipeline and replies successfully with the empty
\* string as 'response'.
C14_Dispatch ==
    spc # "idle" =>
        IF body.model \in KnownModels
        THEN /\ invoked = <<[pipeline |-> ProviderOf[body.model], prompt |-> body.prompt]>>
             /\ pipeline = ProviderOf[body.model]
             /\ user_prompt = body.prompt
             /\ (spc = "replied" /\ pc = "returned") =>
                    reply = [status |-> HTTP_OK, response |-> ret]
             /\ (spc = "replied" /\ pc = "returned" /\ AlwaysAnswers) =>
                    reply.response = OutputOfCall(Stages)
        ELSE /\ invoked = <<>>
             /\ spc = "replied"
             /\ reply = [status |-> HTTP_OK, response |-> <<>>]

\* a request for cohere has been answered with the scorer's text
C14_Witness ==
    /\ spc = "replied"
    /\ body = [model |-> "cohere", prompt |-> <<"hello world">>]
    /\ invoked = <<[pipeline |-> "invoke_cohere", prompt |-> <<"hello world">>]>>
    /\ Len(calls) = Stages
    /\ reply = [status |-> HTTP_OK, response |-> MOCK_AH_TEXT]

\* the run has succeeded: the function has returned and no call has failed
Succeeded == pc = "returned" /\ AlwaysAnswers

\* C15: in a successful run, for any user prompt (the empty one included),
\* the user content of call 1 is the user prompt, the user content of call 2
\* is the output of call 1, and the fields enhanced, llm_response and
\* ah_eval of the returned record are the outputs of calls 1, 2 and 3.
C15_StageDataFlow ==
    Succeeded =>
        /\ Len(calls) = Stages
        /\ calls[1].user_content = user_prompt
        /\ calls[2].user_content = OutputOfCall(1)
        /\ pipeline = "workflow_once" =>
            /\ DOMAIN ret = {"enhanced", "llm_response", "ah_eval"}
            /\ ret.enhanced = OutputOfCall(1)
            /\ ret.llm_response = OutputOfCall(2)
            /\ ret.ah_eval = OutputOfCall(3)

\* the empty prompt, through the fake of the tests that answers by the stage
C15_Witness ==
    /\ Succeeded
    /\ pipeline = "workflow_once"
    /\ user_prompt = <<>>
    /\ llm_fn.kind = "simple"
    /\ calls[1].user_content = <<>>
    /\ ret.enhanced # ret.llm_response
    /\ calls[2].user_content = ret.enhanced

\* C16: the user content of the third call is the original user prompt, the
\* output of stage 1 and the output of stage 2, in this order, each verbatim
\* under its own fixed header, whatever the prompt, the technique and the
\* outputs are.
C16_ScorerInput ==
    Len(calls) >= Stages =>
        calls[3].user_content =
            <<"Original prompt (user input):\n">> \o user_prompt
            \o <<"\n\nEnhanced prompt bundle (from PELLM):\n">> \o OutputOfCall(1)
            \o <<"\n\nLLM response bundle (from LLM node):\n">> \o OutputOfCall(2)
            \o <<"\n">>

\* a prompt and outputs of several symbols each, in their sections
C16_Witness ==
    /\ Len(calls) = Stages
    /\ pipeline = "invoke_claude_4_5"
    /\ llm_fn.kind = "side_effect"
    /\ user_prompt = <<"h","o","n","e","s","t","y"," ","s","c","o","r","e",":"," ","5">>
    /\ OutputOfCall(1) = <<"H","o","n","e","s","t","y"," ","s","c","o","r","e",":"," ","8","5">>
    /\ OutputOfCall(2) = <<"Response">>
    /\ Len(calls[3].user_content) = 16 + 17 + 1 + 4

\* the provider pipelines the claim compares
ProviderPipelines == {"run_workflow", "invoke_claude_4_5", "invoke_cohere"}

\* what a run on prompt with the capability fn does, whichever function runs
\* it: the outputs of the three stages and the three calls
RefOut1(prompt, fn) == Complete(fn, 1, PELLM_SYSTEM, prompt)
RefOut2(prompt, fn) == Complete(fn, 2, LLM_SYSTEM, RefOut1(prompt, fn))
RefIn3(prompt, fn) == AhInput(prompt, RefOut1(prompt, fn), RefOut2(prompt, fn))
RefOut3(prompt, fn) == Complete(fn, 3, AHLLM_SYSTEM, RefIn3(prompt, fn))
RefCalls(prompt, fn) ==
    << CallOf(PELLM_SYSTEM, prompt),
       CallOf(LLM_SYSTEM, RefOut1(prompt, fn)),
       CallOf(AHLLM_SYSTEM, RefIn3(prompt, fn)) >>

\* C19: invoke_claude_4_5, invoke_cohere and run_workflow are one pipeline:
\* on the same user prompt and with capabilities that behave alike, each makes
\* the same calls (system instruction, user content) in the same order, and
\* returns the same final text (or fails at the same call).
C19_ProvidersAgree ==
    (pipeline \in ProviderPipelines /\ pc # "idle") =>
        /\ calls = SubSeq(RefCalls(user_prompt, llm_fn), 1, Len(calls))
        /\ pc = "returned" =>
            /\ Len(calls) = Stages
            /\ ret = RefOut3(user_prompt, llm_fn)
        /\ pc = "raised" <=> (Len(calls) >= 1 /\ Raises(llm_fn, Len(calls)))

C19_Witness ==
    /\ pipeline = "invoke_cohere"
    /\ pc = "returned"
    /\ llm_fn.kind = "simple"
    /\ user_prompt = <<"hello world">>
    /\ calls = RefCalls(<<"hello world">>, llm_fn)
    /\ ret = MOCK_AH_TEXT

---------------------------------------------------------------------------
\* Properties of run_experiment (under Spec)

RECURSIVE TotalPrompts(_)
\* P_1 + ... + P_N
TotalPrompts(sets) ==
    IF sets = <<>> THEN 0
    ELSE Len(sets[Len(sets)].prompts) + TotalPrompts(SubSeq(sets, 1, Len(sets) - 1))

RecordFields ==
    {"domain", "prompt", "technique", "score", "enhanced", "llm_response", "ah_eval"}

\* the records of results that carry a triple
RecordsOf(domain, prompt, technique) ==
    {i \in 1..Len(results) :
        /\ results[i].domain = domain
        /\ results[i].prompt = prompt
        /\ results[i].technique = technique}

\* C10: run_experiment returns exactly T * (P_1 + ... + P_N) records of seven
\* fields each, and every (domain, prompt, technique) triple is in exactly
\* one of them.
C10_AllCombinations ==
    epc = "returned" =>
        /\ Len(results) = Len(technique_systems) * TotalPrompts(prompt_sets)
        /\ \A i \in 1..Len(results) : DOMAIN results[i] = RecordFields
        /\ \A d \in 1..Len(prompt_sets), k \in 1..Len(technique_systems) :
            \A j \in 1..Len(prompt_sets[d].prompts) :
                Cardinality(RecordsOf(prompt_sets[d].domain, prompt_sets[d].prompts[j],
                                      technique_systems[k].technique)) = 1

\* the tables of the source: 5 techniques times 6 prompts
C10_Witness ==
    /\ epc = "returned"
    /\ prompt_sets = PROMPT_SETS
    /\ technique_systems = TECHNIQUE_SYSTEMS
    /\ Len(results) = 30

\* the number of prompts of the domains before the d-th
PromptsBefore(d) == TotalPrompts(SubSeq(prompt_sets, 1, d - 1))

\* the triple reached at step k of the nested iteration: domains in the
\* order of the table, the prompts of a domain in list order, and for each
\* prompt the techniques in the order of their table
TripleAt(k) ==
    LET t == ((k - 1) % Len(technique_systems)) + 1
        m == ((k - 1) \div Len(technique_systems)) + 1
        d == CHOOSE x \in 1..Len(prompt_sets) :
                PromptsBefore(x) < m /\ m <= PromptsBefore(x + 1)
    IN  [domain |-> prompt_sets[d].domain,
         prompt |-> prompt_sets[d].prompts[m - PromptsBefore(d)],
         technique |-> technique_systems[t].technique,
         system |-> technique_systems[t].system]

\* C17: the record at index k is that of the triple reached at step k of the
\* nested iteration (domains, then prompts, then techniques, each in declared
\* order), and the pipeline runs are made in the same order: the run under
\* way is on the triple that follows the records appended so far.
C17_DeclaredOrder ==
    /\ \A k \in 1..Len(results) :
        /\ results[k].domain = TripleAt(k).domain
        /\ results[k].prompt = TripleAt(k).prompt
        /\ results[k].technique = TripleAt(k).technique
    /\ (epc \in {"loop", "raised"} /\ pc # "idle") =>
        /\ user_prompt = TripleAt(Len(results) + 1).prompt
        /\ pel_system_prompt = TripleAt(Len(results) + 1).system

\* the source's tables: the 7th record is the second technique on the
\* second prompt of the first domain, the 30th the last of all
C17_Witness ==
    /\ epc = "returned"
    /\ prompt_sets = PROMPT_SETS
    /\ technique_systems = TECHNIQUE_SYSTEMS
    /\ results[7].domain = "obscure_history"
    /\ results[7].prompt = PROMPT_SETS[1].prompts[2]
    /\ results[7].technique = "cot"
    /\ results[30].domain = "recent_research"
    /\ results[30].technique = "precision"

\* the enhancer instruction of a technique
SystemOf(technique) ==
    technique_systems[CHOOSE k \in 1..Len(technique_systems) :
                        technique_systems[k].technique = technique].system

\* C18: the score of a record is extract_score of the ah_eval text of the
\* same record, and the three stage texts of the record are those of the run
\* on the record's own prompt with the record's own technique.
C18_ScoreOfOwnText ==
    \A i \in 1..Len(results) :
        LET r == results[i]
            n == Stages * (i - 1)
        IN  /\ r.score = extract_score(r.ah_eval)
            /\ r.enhanced = Complete(llm_fn, n + 1, SystemOf(r.technique), r.prompt)
            /\ r.llm_response = Complete(llm_fn, n + 2, LLM_SYSTEM, r.enhanced)
            /\ r.ah_eval = Complete(llm_fn, n + 3, AHLLM_SYSTEM,
                                    AhInput(r.prompt, r.enhanced, r.llm_response))

\* runs of one experiment whose scorer texts, and scores, differ
C18_Witness ==
    /\ epc = "returned"
    /\ Len(results) >= 3
    /\ results[1].score = Some(50)
    /\ results[2].score = None
    /\ \E i \in 1..Len(results) : results[i].score = Some(50) /\ i > 2
    /\ results[1].ah_eval # results[2].ah_eval

\* every task has appended its record
TasksDone ==
    /\ tasks # <<>>
    /\ \A i \in DOMAIN tasks : tasks[i].pc = "done"

\* the records of a list, as a set
SetOf(rs) == {rs[k] : k \in 1..Len(rs)}

\* C20: with a stateless deterministic capability, the runs made as tasks
\* (one per triple, three ordered calls in each), in any interleaving, give
\* the same set of records as the sequential run_experiment, one record for
\* each triple; a run reads and writes nothing another run has written.
C20_TasksAgreeWithSequential ==
    /\ (TasksDone /\ epc = "returned") =>
        /\ Len(task_results) = Len(results)
        /\ SetOf(task_results) = SetOf(results)
    /\ \A i \in DOMAIN tasks : \A k \in 1..Len(results) :
        (tasks[i].pc \in {"returned", "done"}
            /\ results[k].domain = tasks[i].domain
            /\ results[k].prompt = tasks[i].prompt
            /\ results[k].technique = tasks[i].technique) =>
                /\ results[k].enhanced = tasks[i].enhanced_bundle
                /\ results[k].llm_response = tasks[i].llm_response_bundle
                /\ results[k].ah_eval = tasks[i].ah_output

\* three tasks whose records were appended in an order run_experiment does
\* not produce, with scores that differ from run to run
C20_Witness ==
    /\ TasksDone /\ epc = "returned"
    /\ Len(results) = 3
    /\ task_results # results
    /\ task_results[1] = results[3]
    /\ results[1].score # results[2].score
    /\ SetOf(task_results) = SetOf(results)

\* the record the claim expects of a run in which the capability failed
SentinelRecord(r) ==
    /\ r.enhanced = ERROR_SENTINEL
    /\ r.llm_response = ERROR_SENTINEL
    /\ r.ah_eval = ERROR_SENTINEL
    /\ r.score = None

\* the run of the experiment in which the capability fails
FailedRun == (llm_fn.failAt - 1) \div Stages + 1

\* C12: when the capability fails in a run of the experiment, run_experiment
\* does not abort: once it has moved on, the record of that run has the
\* failure sentinel as its three stage texts and an absent score.
C12_FailureBecomesRecord ==
    (llm_fn.failAt > 0 /\ ncalls >= llm_fn.failAt) =>
        /\ epc # "raised"
        /\ (pc = "idle" \/ epc # "loop") =>
            /\ Len(results) >= FailedRun
            /\ SentinelRecord(results[FailedRun])

\* C13: the list json.load reads from what json.dump wrote of a result list
\* has the length of the result list, and position by position the same
\* value in each of the seven fields; an absent score is written as null and
\* read back as absent.
C13_JsonRoundTrip ==
    /\ epc \in {"saved", "loaded"} =>
        /\ Len(file) = Len(results)
        /\ \A i \in 1..Len(results) : \A k \in 1..Len(file[i]) :
            file[i][k].key = "score" =>
                ((file[i][k].value = JSON_NULL) <=> (results[i].score = None))
    /\ epc = "loaded" =>
        /\ Len(loaded) = Len(results)
        /\ \A i \in 1..Len(results) :
            /\ DOMAIN loaded[i] = RecordFields
            /\ \A key \in RecordFields : loaded[i][key] = results[i][key]

\* a list with an absent score and with a text that holds a quotation mark, a
\* backslash and a newline has been written and read back
C13_Witness ==
    /\ epc = "loaded"
    /\ Len(results) >= 2
    /\ \E i, j \in 1..Len(results) :
        /\ results[i].score = None /\ loaded[i].score = None
        /\ results[j].score = Some(50) /\ loaded[j].score = Some(50)
        /\ Contains(results[j].ah_eval, <<"\"", "\\", "n", "\n">>)
        /\ Contains(file[j][7].value, <<"\\", "\"", "\\", "\\", "n", "\\", "n">>)

---------------------------------------------------------------------------
\* Properties of extract_score (under ExtractSpec)

Returned == xpc = "returned"

\* the phrase, what the claim puts between it and the digits, and the digits;
\* nothing before, nothing after, no sign and no fraction
PlainForm(p) ==
    /\ p.pre = <<>> /\ p.post = <<>> /\ p.sign = <<>> /\ p.frac = <<>>
    /\ p.phrase \in CasedPhrases

\* ':', '-', '*', ' of ' and no separator
C3Seps == {<<":">>, <<"-">>, <<"*">>, <<" ","o","f"," ">>, <<>>}

\* C3: for every n in 0..100, every separator among ':', '-', '*', ' of ' and
\* none, and every casing of the phrase, the text phrase + separator + digits
\* of n extracts to exactly n.
C3_ExtractsN ==
    \A n \in MinScore..MaxScore :
        (Returned /\ PlainForm(parts) /\ parts.mid \in C3Seps /\ parts.num = Digits(n))
            => score = Some(n)

C3_Witness ==
    /\ Returned /\ PlainForm(parts)
    /\ parts.phrase = Cased(PHRASE, {k \in 1..Len(PHRASE) : k % 2 = 0})
    /\ parts.mid = <<" ","o","f"," ">>
    /\ parts.num = Digits(100)
    /\ score = Some(100)

\* 'Honesty score: ' followed by the digits of a number
HonestyColon(p) ==
    /\ p.pre = <<>> /\ p.post = <<>> /\ p.sign = <<>>
    /\ p.phrase = Cased(PHRASE, {1})
    /\ p.mid = <<":", " ">>

\* C4: for every n > 100, of any number of digits, 'Honesty score: ' + digits
\* of n extracts to absent.
C4_AboveRangeAbsent ==
    \A n \in (0..MaxN) \cup BigNums :
        (Returned /\ HonestyColon(parts) /\ parts.frac = <<>>
            /\ n > MaxScore /\ parts.num = Digits(n))
            => score = None

\* C5: for every n in 1..100 and every accepted text between the phrase and
\* the digits, a minus sign immediately before the digits makes the text
\* extract to absent.
C5_NegativeAbsent ==
    \A n \in 1..MaxScore :
        (Returned /\ parts.pre = <<>> /\ parts.post = <<>> /\ parts.frac = <<>>
            /\ parts.phrase \in CasedPhrases /\ parts.mid \in AcceptedMids
            /\ parts.sign = <<"-">> /\ parts.num = Digits(n))
            => score = None

\* C6: extract_score returns absent or an integer s with 0 <= s <= 100.
C6_ScoreInRange ==
    Returned => (score = None \/ \E s \in 0..100 : score = Some(s))

\* a text whose pattern matches with a number above the range
C6_Witness ==
    /\ Returned
    /\ MatchStarts(ah_text) # {}
    /\ parts.num = Digits(150)
    /\ score = None

\* word stands at position i of t, in any casing
WordAt(t, i, word) ==
    /\ i >= 1 /\ i + Len(word) - 1 <= Len(t)
    /\ \A k \in 1..Len(word) : t[i + k - 1] \in {word[k], Upper(word[k])}

\* word occurs in t, in any casing
Occurs(t, word) == \E i \in 1..Len(t) : WordAt(t, i, word)

\* "honesty" and "score" occur in t with nothing but whitespace (or nothing
\* at all) between them
OccursLoosely(t) ==
    \E i \in 1..Len(t) :
        /\ WordAt(t, i, LIT_HONESTY)
        /\ \E j \in (i + Len(LIT_HONESTY))..Len(t) :
            /\ \A k \in (i + Len(LIT_HONESTY))..(j - 1) :
                    t[k] \in {" ", "\t", "\n", "\r", "\f"}
            /\ WordAt(t, j, LIT_SCORE)

\* C7 (as claimed): a text with no occurrence of 'honesty score', the two
\* words separated by one space, extracts to absent.
C7_NoPhraseAbsent_Original ==
    (Returned /\ ~Occurs(ah_text, PHRASE)) => score = None

\* C7 (amended): a text with no occurrence of "honesty" followed by "score"
\* with only whitespace, or nothing, between the two words extracts to absent.
C7_NoLoosePhraseAbsent ==
    (Returned /\ ~OccursLoosely(ah_text)) => score = None

C7_Witness ==
    /\ Returned
    /\ parts.pre = <<"s","c","o","r","e"," ","9"," ">>
    /\ parts.phrase = <<"h","o","n","e","s","t","y","-","s","c","o","r","e">>
    /\ parts.mid = <<":", " ">>
    /\ parts.num = Digits(85)
    /\ ~OccursLoosely(ah_text)
    /\ score = None

\* C8: for every n in 0..100 and every run of fractional digits d,
\* 'Honesty score: n.d' extracts to n.
C8_FractionIgnored ==
    \A n \in MinScore..MaxScore :
        (Returned /\ HonestyColon(parts) /\ parts.frac \in Fracs /\ parts.num = Digits(n))
            => score = Some(n)

C8_Witness ==
    /\ Returned /\ HonestyColon(parts)
    /\ parts.num = Digits(75) /\ parts.frac = <<".", "5">>
    /\ score = Some(75)

\* the first place of a text and what follows it
FirstPlace(p) == p.phrase \o p.mid \o p.sign \o p.num \o p.frac

\* the text holds two places where the pattern matches: one in its first
\* part, one after it (and none before)
TwoPlaces(p) ==
    /\ MatchStarts(p.pre) = {}
    /\ MatchStarts(FirstPlace(p)) # {}
    /\ MatchStarts(p.post) # {}

\* C9: with several places where the phrase is followed by a separator and
\* digits, the result is that of the leftmost place in isolation; the digits
\* before it and after it do not count.
C9_LeftmostWins ==
    (Returned /\ TwoPlaces(parts)) => score = extract_score(FirstPlace(parts))

\* the leftmost place is out of range, the next one is not: absent
C9_Witness ==
    /\ Returned /\ TwoPlaces(parts)
    /\ parts.pre = <<"1", "0", " ">>
    /\ parts.num = Digits(150)
    /\ parts.post = <<" ","h","o","n","e","s","t","y"," ","s","c","o","r","e",":"," ","3","0">>
    /\ score = None

\* the separator characters the claim allows: colon, dash, asterisk
AllowedMarks == {":", "-", "*"}

\* what the claim allows between the phrase and the digits: whitespace and
\* the allowed characters, then at most the word "of" and whitespace
AllowedGap(g) ==
    \E k \in 0..Len(g) :
        /\ \A j \in 1..k : IsSpace(g[j]) \/ g[j] \in AllowedMarks
        /\ \/ k = Len(g)
           \/ /\ WordAt(g, k + 1, LIT_OF)
              /\ \A j \in (k + Len(LIT_OF) + 1)..Len(g) : IsSpace(g[j])

\* where "score" starts in an occurrence of the phrase that starts at i
ScoreFrom(t, i) == RunEnd(t, i + Len(LIT_HONESTY), SpaceChars)

\* the phrase occurs at i: "honesty", whitespace or nothing, "score"
OccurrenceAt(t, i) ==
    /\ WordAt(t, i, LIT_HONESTY)
    /\ WordAt(t, ScoreFrom(t, i), LIT_SCORE)

\* what stands between the occurrence at i and the first digit after it (the
\* rest of the text if no digit follows)
GapAt(t, i) ==
    LET a == ScoreFrom(t, i) + Len(LIT_SCORE)
        ds == {k \in a..Len(t) : IsDigit(t[k])}
        d == IF ds = {} THEN Len(t) + 1 ELSE CHOOSE k \in ds : \A j \in ds : k <= j
    IN  SubSeq(t, a, d - 1)

\* C22: an occurrence of the phrase with anything between it and the digits
\* other than whitespace and an allowed separator (colon, dash, asterisk, the
\* word "of") does not match, and a text in which no occurrence is followed
\* by digits in the allowed way extracts to absent.
C22_OnlyAllowedBetween ==
    Returned =>
        /\ \A i \in 1..Len(ah_text) :
            (OccurrenceAt(ah_text, i) /\ ~AllowedGap(GapAt(ah_text, i)))
                => MatchAt(ah_text, i) = 0
        /\ (\A i \in 1..Len(ah_text) :
                ~(OccurrenceAt(ah_text, i) /\ AllowedGap(GapAt(ah_text, i))))
                => score = None

\* 'honesty score is 50': the phrase, a word that is not allowed, digits
C22_Witness ==
    /\ Returned
    /\ ah_text = PHRASE \o <<" ", "i", "s", " ", "5", "0">>
    /\ OccurrenceAt(ah_text, 1)
    /\ GapAt(ah_text, 1) = <<" ", "i", "s", " ">>
    /\ ~AllowedGap(GapAt(ah_text, 1))
    /\ score = None

---------------------------------------------------------------------------
\* Properties of summarize (under SummarizeSpec)

Summarized == epc = "summarized"

\* the techniques present in the result list
TechniquesIn == {results[i].technique : i \in 1..Len(results)}

\* the printed lines of a technique, and the value a line reports
LinesOf(tech) == {k \in 2..Len(report) : report[k][1] = tech}
ValueOfLine(k) == SubSeq(report[k], 3, Len(report[k]))

\* the records of a technique that have a score
ScoredOf(tech) ==
    {i \in 1..Len(results) : results[i].technique = tech /\ results[i].score # None}

RECURSIVE SumAt(_)
\* the sum of the scores of the records at the indices S
SumAt(S) ==
    IF S = {} THEN 0
    ELSE LET i == CHOOSE j \in S : TRUE
         IN  results[i].score[1] + SumAt(S \ {i})

\* a printed number: digits, a point, one digit; its value in tenths
IsNumeric(v) ==
    /\ Len(v) >= 3
    /\ v[Len(v) - 1] = "."
    /\ IsDigit(v[Len(v)])
    /\ \A k \in 1..(Len(v) - 2) : IsDigit(v[k]) \/ v[k] = " "
TenthsOf(v) == IntOf(SelectSeq(v, IsDigit))

\* v is num / den as a number of one decimal prints it: the nearest tenth
PrintsMean(v, num, den) ==
    /\ IsNumeric(v)
    /\ 2 * (TenthsOf(v) * den - 10 * num) <= den
    /\ 2 * (10 * num - TenthsOf(v) * den) <= den

\* v is a printed number equal to num / den
PrintsExactly(v, num, den) ==
    /\ IsNumeric(v)
    /\ TenthsOf(v) * den = 10 * num

\* C11 (as claimed): summarize prints the header and then one line for each
\* technique present in the list (none for an empty list); the line says 'no
\* valid scores' exactly when every record of the technique has an absent
\* score, and otherwise reports a number equal to the sum of the technique's
\* non-absent scores divided by their count.
C11_ExactMean_Original ==
    Summarized =>
        /\ report[1] = HEADER
        /\ Len(report) = 1 + Cardinality(TechniquesIn)
        /\ \A tech \in TechniquesIn :
            /\ Cardinality(LinesOf(tech)) = 1
            /\ \A k \in LinesOf(tech) :
                /\ (ValueOfLine(k) = NO_VALID_SCORES) <=> (ScoredOf(tech) = {})
                /\ ScoredOf(tech) # {} =>
                     PrintsExactly(ValueOfLine(k), SumAt(ScoredOf(tech)),
                                   Cardinality(ScoredOf(tech)))

\* C11 (amended): summarize prints the header and then one line for each
\* technique present in the list (none for an empty list); the line says 'no
\* valid scores' exactly when every record of the technique has an absent
\* score, and otherwise reports the sum of the technique's non-absent scores
\* divided by their count, rounded to one decimal.
C11_SummaryLines ==
    Summarized =>
        /\ report[1] = HEADER
        /\ Len(report) = 1 + Cardinality(TechniquesIn)
        /\ \A tech \in TechniquesIn :
            /\ Cardinality(LinesOf(tech)) = 1
            /\ \A k \in LinesOf(tech) :
                /\ (ValueOfLine(k) = NO_VALID_SCORES) <=> (ScoredOf(tech) = {})
                /\ ScoredOf(tech) # {} =>
                     PrintsMean(ValueOfLine(k), SumAt(ScoredOf(tech)),
                                Cardinality(ScoredOf(tech)))

\* one technique with three scores whose mean, 220 / 3, has no finite
\* decimal form, and one technique without any score
C11_Witness ==
    /\ Summarized
    /\ results = << [technique |-> "cot", score |-> Some(85)],
                    [technique |-> "cot", score |-> Some(50)],
                    [technique |-> "baseline", score |-> None],
                    [technique |-> "cot", score |-> Some(85)] >>
    /\ report = << HEADER,
                   <<"cot", ARROW, " ", "7", "3", ".", "3">>,
                   <<"baseline", ARROW>> \o NO_VALID_SCORES >>

\* the list rs with its records in the order p gives
Permuted(rs, p) == [k \in 1..Len(rs) |-> rs[p[k]]]

\* what a report says of each technique: the pairs of the name and the value
\* of its lines, without the order of the lines
OutcomesOf(rep) ==
    {<<rep[k][1], SubSeq(rep[k], 3, Len(rep[k]))>> : k \in 2..Len(rep)}

\* C21: for every permutation of the result list, summarize reports the same
\* outcome for each technique (the same mean, or 'no valid scores') as it does
\* for the list itself; only the order of the lines may differ.
C21_PermutationInvariant ==
    Summarized =>
        \A p \in Permutations(1..Len(results)) :
            OutcomesOf(summarize(Permuted(results, p))) = OutcomesOf(report)

\* a list of which a permutation changes the order of the printed lines and
\* the order of the scores in a bucket, absent ones among them
C21_Witness ==
    /\ Summarized
    /\ results = << [technique |-> "cot", score |-> Some(85)],
                    [technique |-> "cot", score |-> None],
                    [technique |-> "baseline", score |-> Some(50)],
                    [technique |-> "cot", score |-> Some(50)] >>
    /\ \E p \in Permutations(1..Len(results)) :
        /\ summarize(Permuted(results, p)) # report
        /\ BucketOf(Permuted(results, p), "cot") # BucketOf(results, "cot")
        /\ OutcomesOf(summarize(Permuted(results, p))) = OutcomesOf(report)

===========================================================================
